---- MODULE Spec2Model ----
(***************************************************************************)
(* Client management API: the record store (clientService.ts over a        *)
(* MongoDB collection), its HTTP routes, the cached MongoDB connection      *)
(* (db.ts) and the two-step external credential bootstrap.                  *)
(*                                                                          *)
(* Several specifications share the module:                                   *)
(*   Spec      the record store and its HTTP routes                         *)
(*   ConnSpec  concurrent callers of connectToMongoDB / closeMongoDB        *)
(*   BootSpec  one invocation of fetchClientDataFromExternalAPI             *)
(* and smaller ones follow them: ListSpec, UpdateSpec, BootStoreSpec and    *)
(* RaceSpec (concurrent calls of updateClient).                             *)
(***************************************************************************)
EXTENDS Integers, Sequences, FiniteSets, TLC

VARIABLES
  clients,       \* the documents of the 'clients' collection (a set of docs)
  nextOid,       \* the next ObjectId the driver generates for an insert
  now,           \* the wall clock read by new Date()
  last,          \* the call being answered: its arguments and its answer
  born,          \* history: _id value -> what the creating call stored
  mongoClient,   \* db.ts: the cached MongoClient (0 = null)
  mongoDb,       \* db.ts: the cached Db handle (0 = null)
  sockets,       \* per constructed MongoClient: its connect() and close() state
  callers,       \* per caller: its position in getCollection / closeMongoDB
  conn,          \* history: how many connect() and close() calls were made
  boot,          \* the state of one fetchClientDataFromExternalAPI invocation
  updating       \* per caller: its updateClient call and where it stands

storeVars == <<clients, nextOid, now, last, born>>
connVars  == <<mongoClient, mongoDb, sockets, callers, conn>>
bootVars  == <<boot>>
raceVars  == <<updating>>
vars      == <<clients, nextOid, now, last, born,
               mongoClient, mongoDb, sockets, callers, conn, boot, updating>>

----------------------------------------------------------------------------
(* Bounds of the model. *)
MaxCreates == 1      \* inserts that let the driver generate an ObjectId
MaxTime    == 2      \* the clock runs 1..MaxTime
MaxCallers == 2      \* concurrent callers of db.ts
MaxClients == 2      \* MongoClient objects constructed in one process

----------------------------------------------------------------------------
(* JavaScript values.  Every value is a record of one shape so that values  *)
(* of different types can be compared: t is the type tag, n the number      *)
(* (number, ObjectId, Date), s the characters (string).                     *)
Undef    == [t |-> "undef", n |-> 0, s |-> <<>>]
Num(i)   == [t |-> "num",   n |-> i, s |-> <<>>]
Str(cs)  == [t |-> "str",   n |-> 0, s |-> cs]
Oid(i)   == [t |-> "oid",   n |-> i, s |-> <<>>]
Date(i)  == [t |-> "date",  n |-> i, s |-> <<>>]

(* A key that is present with the value undefined ({bid: undefined}), as    *)
(* distinct from an absent key (Undef), and null.                           *)
Void     == [t |-> "void",  n |-> 0, s |-> <<>>]
Null     == [t |-> "null",  n |-> 0, s |-> <<>>]

Digits    == {"0", "1", "2", "3", "4", "5", "6", "7", "8", "9"}
HexChars  == <<"0", "1", "2", "3", "4", "5", "6", "7", "8", "9",
               "a", "b", "c", "d", "e", "f">>
UpperHex  == <<"A", "B", "C", "D", "E", "F">>

IsHexChar(c) == (\E i \in 1..16 : HexChars[i] = c) \/ (\E i \in 1..6 : UpperHex[i] = c)

HexCharVal(c) ==
  IF \E i \in 1..16 : HexChars[i] = c
    THEN (CHOOSE i \in 1..16 : HexChars[i] = c) - 1
    ELSE (CHOOSE i \in 1..6 : UpperHex[i] = c) + 9

RECURSIVE HexNum(_)
HexNum(cs) ==
  IF cs = <<>> THEN 0
  ELSE 16 * HexNum(SubSeq(cs, 1, Len(cs) - 1)) + HexCharVal(cs[Len(cs)])

RECURSIVE HexOfLen(_, _)
HexOfLen(n, len) ==
  IF len = 0 THEN <<>>
  ELSE Append(HexOfLen(n \div 16, len - 1), HexChars[(n % 16) + 1])

(* bson ObjectId: 12 bytes, written as 24 hexadecimal characters. *)
toHexString(n) == HexOfLen(n, 24)

(* new ObjectId(string): a string of 24 hex characters is decoded; any      *)
(* other string makes the constructor throw (strings of exactly 12          *)
(* characters, which older bson releases read as raw bytes, are not among   *)
(* the inputs of this model).                                               *)
ObjectIdFromString(cs) ==
  IF Len(cs) = 24 /\ \A i \in 1..Len(cs) : IsHexChar(cs[i])
    THEN [ok |-> TRUE,  oid |-> Oid(HexNum(cs))]
    ELSE [ok |-> FALSE, oid |-> Undef]

(* String(id) of an _id value, as a caller passes it back in ?id=... *)
IdToString(v) == IF v.t = "oid" THEN toHexString(v.n) ELSE v.s

----------------------------------------------------------------------------
(* Client documents: a function from keys to values, Undef where the key   *)
(* is absent.                                                               *)
SchemaFields ==
  <<"whatsappGroupName", "bid", "uid", "mtcGroupID", "reporterName",
    "reporterPhone", "compId", "userName", "password", "appGuid">>

FieldNames == {SchemaFields[i] : i \in 1..Len(SchemaFields)}
DocKeys    == FieldNames \cup {"_id", "createdAt", "updatedAt"}

NoDoc == [k \in DocKeys |-> Undef]

(* What the driver writes for a document: with ignoreUndefined left at its *)
(* default, a key whose value is undefined is serialized as null.           *)
Bson(doc) == [k \in DocKeys |-> IF doc[k] = Void THEN Null ELSE doc[k]]

(* { ...a, ...b }: the keys of b override those of a. *)
Spread(a, b) == [k \in DocKeys |-> IF b[k] # Undef THEN b[k] ELSE a[k]]

(* a regex that lets a shorter number through: {7,9} for {8,9} *)
PhoneRegexLoose(cs) ==
  /\ Len(cs) \in {11, 12, 13}
  /\ SubSeq(cs, 1, 4) = <<"+", "9", "7", "2">>
  /\ \A i \in 5..Len(cs) : cs[i] \in Digits

(* /^\+972[0-9]{8,9}$/ *)
PhoneRegex(cs) ==
  /\ Len(cs) \in {12, 13}
  /\ SubSeq(cs, 1, 4) = <<"+", "9", "7", "2">>
  /\ \A i \in 5..Len(cs) : cs[i] \in Digits

FieldType(f) ==
  IF f \in {"bid", "uid", "mtcGroupID"} THEN "num" ELSE "str"

(* The issue zod reports for one field of ClientValidationSchema, "" when   *)
(* the field passes.  partial makes every field optional.                   *)
FieldIssue(f, v, partial) ==
  IF v = Undef \/ v = Void
    THEN IF partial \/ f = "whatsappGroupName" THEN "" ELSE "Required"
  ELSE IF v.t # FieldType(f)
    THEN "Expected " \o FieldType(f)
  ELSE IF f = "reporterPhone" /\ ~PhoneRegex(v.s)
    THEN "Phone must be in Israeli format (+972XXXXXXXXX)"
  ELSE ""

RECURSIVE IssuesFrom(_, _, _)
IssuesFrom(i, data, partial) ==
  IF i > Len(SchemaFields) THEN <<>>
  ELSE LET f   == SchemaFields[i]
           msg == FieldIssue(f, data[f], partial)
           rest == IssuesFrom(i + 1, data, partial)
       IN IF msg = "" THEN rest ELSE <<[field |-> f, message |-> msg]>> \o rest

(* ClientValidationSchema.safeParse(data): the issues in schema order;      *)
(* success is the empty list.  Keys outside the schema are not looked at.   *)
ClientValidationSchema(data) == IssuesFrom(1, data, FALSE)
ClientValidationSchemaPartial(data) == IssuesFrom(1, data, TRUE)

----------------------------------------------------------------------------
(* The inputs of the model. *)
Phone8  == <<"+", "9", "7", "2", "5", "0", "1", "2", "3", "4", "5", "6">>
Phone9  == Phone8 \o <<"7">>
Phone7  == SubSeq(Phone8, 1, 11)
Phone10 == Phone9 \o <<"8">>

Valid1 ==
  [NoDoc EXCEPT !["bid"] = Num(5), !["uid"] = Num(9), !["mtcGroupID"] = Num(21),
                !["reporterName"] = Str(<<"D">>), !["reporterPhone"] = Str(Phone8),
                !["compId"] = Str(<<"C", "1">>), !["userName"] = Str(<<"C", "1">>),
                !["password"] = Str(<<"p">>), !["appGuid"] = Str(<<"G">>)]

Valid2 ==
  [Valid1 EXCEPT !["whatsappGroupName"] = Str(<<"g">>), !["bid"] = Num(2),
                 !["reporterPhone"] = Str(Phone9)]

(* A valid candidate that carries a key outside the schema: zod's object    *)
(* schema ignores it and the service spreads it into the document.          *)
WithId == [Valid2 EXCEPT !["_id"] = Str(<<"a", "b", "c">>)]

ValidCandidates == {Valid1, WithId}

BadPhones ==
  { Phone7, Phone10,
    SubSeq(Phone8, 2, 12) \o <<"7">>,                       \* no leading +
    <<"+", "9", "7", "1">> \o SubSeq(Phone8, 5, 12),         \* another prefix
    SubSeq(Phone8, 1, 11) \o <<"x">>,                        \* a letter
    Phone8 \o <<"\n">> }                                     \* trailing newline

InvalidCandidates ==
  {[Valid1 EXCEPT ![f] = Undef] : f \in FieldNames \ {"whatsappGroupName"}}
  \cup {[Valid1 EXCEPT !["reporterPhone"] = Str(p)] : p \in BadPhones}
  \cup { [Valid1 EXCEPT !["bid"] = Str(<<"5">>)],
         [Valid1 EXCEPT !["reporterName"] = Num(1)],
         [Valid1 EXCEPT !["reporterPhone"] = Num(972)],
         [Valid1 EXCEPT !["whatsappGroupName"] = Num(1)],
         [WithId EXCEPT !["password"] = Undef],
         NoDoc }

Candidates == ValidCandidates \cup InvalidCandidates

(* Identifier strings a caller passes: the hex form of ObjectIds the driver *)
(* hands out (and one it never does), and malformed ones.                   *)
WellFormedIds == {toHexString(i) : i \in 1..(MaxCreates + 1)}
MalformedIds ==
  { <<"a", "b", "c">>,
    SubSeq(toHexString(1), 1, 23) \o <<"z">> }
IdStrings == WellFormedIds \cup MalformedIds

(* Payloads of updateClient. *)
Updates ==
  { NoDoc,
    [NoDoc EXCEPT !["reporterName"] = Str(<<"Z">>)],
    [NoDoc EXCEPT !["reporterName"] = Str(<<"Y">>), !["bid"] = Num(7)],
    [NoDoc EXCEPT !["createdAt"] = Date(0)],
    [NoDoc EXCEPT !["_id"] = Oid(MaxCreates + 1)],
    [NoDoc EXCEPT !["reporterPhone"] = Str(Phone7)],
    [NoDoc EXCEPT !["bid"] = Str(<<"7">>)],
    [NoDoc EXCEPT !["bid"] = Void] }

(* Options of listClients; Undef stands for an option left out. *)
Pages    == {Undef, Num(2)}
Limits   == {Undef, Num(0), Num(1), Num(2), Num(-1)}
SortBys  == {Undef, Str(<<"bid">>), Str(<<"nokey">>)}
SortOrders == {Undef, Str(<<"asc">>)}

----------------------------------------------------------------------------
(* The collection. *)
Min(a, b) == IF a < b THEN a ELSE b
Abs(a)    == IF a < 0 THEN -a ELSE a

(* findOne({_id: oid}) *)
FindById(docs, id) == {d \in docs : d["_id"] = id}

(* the stored records a caller's identifier string names *)
Named(docs, id) == {d \in docs : IdToString(d["_id"]) = id}

(* BSON comparison order of the value types of this model: null (and a     *)
(* missing field) < numbers < strings < ObjectId < Date.  The sort keys of  *)
(* the model are numbers, dates or missing, which n orders.                 *)
TypeRank(v) ==
  CASE v.t \in {"undef", "null"} -> 1 [] v.t = "num" -> 2 [] v.t = "str" -> 3
    [] v.t = "oid" -> 4 [] v.t = "date" -> 5

KeyLeq(a, b) ==
  \/ TypeRank(a) < TypeRank(b)
  \/ TypeRank(a) = TypeRank(b) /\ a.n <= b.n

SortKey(d, field) == IF field \in DocKeys THEN d[field] ELSE Undef

(* cursor.sort({[field]: dir}): every order of the documents the sort may   *)
(* produce; documents with equal keys come in any order.                    *)
Sorted(docs, field, dir) ==
  LET n == Cardinality(docs)
  IN { o \in [1..n -> docs] :
         /\ \A i, j \in 1..n : i # j => o[i] # o[j]
         /\ \A i, j \in 1..n : i < j =>
              IF dir = 1 THEN KeyLeq(SortKey(o[i], field), SortKey(o[j], field))
                         ELSE KeyLeq(SortKey(o[j], field), SortKey(o[i], field)) }

(* cursor.skip(k) for k >= 0 *)
Skip(o, k) == SubSeq(o, k + 1, Len(o))

(* cursor.limit(l): 0 is no limit, a negative l is read as -l *)
Limit(o, l) == IF l = 0 THEN o ELSE SubSeq(o, 1, Min(Abs(l), Len(o)))

----------------------------------------------------------------------------
(* The answer of a service call: outcome is "ok", "null", "true", "false"   *)
(* or "throw"; err names what was thrown.                                   *)
Answer(outcome, err, issues, doc, docs, total) ==
  [outcome |-> outcome, err |-> err, issues |-> issues, doc |-> doc,
   docs |-> docs, total |-> total, page |-> Undef, limit |-> Undef]

Throw(err)         == Answer("throw", err, <<>>, NoDoc, <<>>, 0)
ThrowInvalid(iss)  == Answer("throw", "validation", iss, NoDoc, <<>>, 0)
Return(outcome, d) == Answer(outcome, "", <<>>, d, <<>>, 0)

NoCall ==
  [op |-> "none", via |-> "call", id |-> <<>>, data |-> NoDoc,
   opts |-> [page |-> Undef, limit |-> Undef, sortBy |-> Undef, sortOrder |-> Undef],
   ans |-> Return("ok", NoDoc), stored |-> NoDoc, status |-> 0, body |-> ""]

NoOpts == [page |-> Undef, limit |-> Undef, sortBy |-> Undef, sortOrder |-> Undef]

(* What a service call leaves behind: its answer, the collection, the next  *)
(* generated ObjectId, the clock, the history and the document written.     *)
Effect(ans, docs, oid, time, hist, stored) ==
  [ans |-> ans, clients |-> docs, nextOid |-> oid, now |-> time, born |-> hist,
   stored |-> stored]

NoEffect(ans) == Effect(ans, clients, nextOid, now, born, NoDoc)

Stamp(created, updated) ==
  [NoDoc EXCEPT !["createdAt"] = Date(created), !["updatedAt"] = Date(updated)]

(* createClient(clientData).  dbok: getCollection and insertOne succeed.    *)
(* d1, d2, d3: the clock ticks between the four new Date() of the function. *)
createClient(clientData, dbok, d1, d2, d3) ==
  LET issues == ClientValidationSchema(clientData)
      t2     == now + d1
      t3     == t2 + d2
      t4     == t3 + d3
      given  == clientData["_id"]
      id     == IF given = Undef THEN Oid(nextOid) ELSE given
      doc    == Bson([Spread(clientData, Stamp(now, t2)) EXCEPT !["_id"] = id])
      ret    == [Spread(clientData, Stamp(t3, t4)) EXCEPT !["_id"] = id]
  IN IF issues # <<>> THEN NoEffect(ThrowInvalid(issues))
     ELSE IF ~dbok THEN NoEffect(Throw("storage"))
     ELSE IF FindById(clients, id) # {}             \* E11000 duplicate key
       THEN Effect(Throw("storage"), clients, nextOid, t2, born, NoDoc)
     ELSE Effect(Return("ok", ret),
                 clients \cup {doc},
                 IF given = Undef THEN nextOid + 1 ELSE nextOid,
                 t4,
                 (id :> [cand |-> clientData, createdAt |-> doc["createdAt"],
                         intact |-> TRUE]) @@ born,
                 doc)

(* getClient(clientId) *)
getClient(clientId, dbok) ==
  LET parsed == ObjectIdFromString(clientId)
      found  == FindById(clients, parsed.oid)
  IN IF ~dbok THEN NoEffect(Throw("storage"))
     ELSE IF ~parsed.ok THEN NoEffect(Throw("bson"))
     ELSE IF found = {} THEN NoEffect(Return("null", NoDoc))
     ELSE NoEffect(Return("ok", CHOOSE d \in found : TRUE))

(* a variant that replaces the document by the payload instead of merging  *)
updateClientReplacing(clientId, updateData, dbok) ==
  LET issues == ClientValidationSchemaPartial(updateData)
      parsed == ObjectIdFromString(clientId)
      found  == FindById(clients, parsed.oid)
      old    == CHOOSE d \in found : TRUE
      set    == [updateData EXCEPT !["updatedAt"] = Date(now)]
      new    == [set EXCEPT !["_id"] = old["_id"]]
  IN IF ~dbok THEN NoEffect(Throw("storage"))
     ELSE IF issues # <<>> THEN NoEffect(ThrowInvalid(issues))
     ELSE IF ~parsed.ok THEN NoEffect(Throw("bson"))
     ELSE IF found = {} THEN NoEffect(Throw("notfound"))
     ELSE Effect(Return("ok", new),
                 (clients \ {old}) \cup {new}, nextOid, now,
                 [born EXCEPT ![old["_id"]].intact = FALSE],
                 new)

(* updateClient(clientId, updateData), against the driver API the code is   *)
(* written for (findOneAndUpdate answering {value}).                        *)
updateClient(clientId, updateData, dbok) ==
  LET issues == ClientValidationSchemaPartial(updateData)
      parsed == ObjectIdFromString(clientId)
      found  == FindById(clients, parsed.oid)
      old    == CHOOSE d \in found : TRUE
      set    == [updateData EXCEPT !["updatedAt"] = Date(now)]
      new    == Spread(old, Bson(set))
  IN IF ~dbok THEN NoEffect(Throw("storage"))
     ELSE IF issues # <<>> THEN NoEffect(ThrowInvalid(issues))
     ELSE IF ~parsed.ok THEN NoEffect(Throw("bson"))
     ELSE IF found = {} THEN NoEffect(Throw("notfound"))
     ELSE IF set["_id"] # Undef /\ set["_id"] # old["_id"]  \* _id is immutable
       THEN NoEffect(Throw("storage"))
     ELSE Effect(Return("ok", new),
                 (clients \ {old}) \cup {new}, nextOid, now,
                 [born EXCEPT ![old["_id"]].intact = FALSE],
                 new)

(* deleteClient(clientId) *)
deleteClient(clientId, dbok) ==
  LET parsed == ObjectIdFromString(clientId)
      found  == FindById(clients, parsed.oid)
  IN IF ~dbok THEN NoEffect(Throw("storage"))
     ELSE IF ~parsed.ok THEN NoEffect(Throw("bson"))
     ELSE IF found = {} THEN NoEffect(Return("false", NoDoc))
     ELSE Effect(Return("true", NoDoc),
                 clients \ found, nextOid, now,
                 [i \in DOMAIN born \ {parsed.oid} |-> born[i]],
                 NoDoc)

(* The defaults of listClients' destructuring. *)
WithDefaults(options) ==
  [page      |-> IF options.page = Undef THEN Num(1) ELSE options.page,
   limit     |-> IF options.limit = Undef THEN Num(10) ELSE options.limit,
   sortBy    |-> IF options.sortBy = Undef THEN Str(<<"createdAt">>) ELSE options.sortBy,
   sortOrder |-> IF options.sortOrder = Undef THEN Str(<<"desc">>) ELSE options.sortOrder]

SkipOf(page, limit) == (page - 1) * limit

(* the object listClients returns: {clients, total, page, limit} *)
Listing(docs, total, page, limit) ==
  [Answer("ok", "", <<>>, NoDoc, docs, total) EXCEPT !.page = page, !.limit = limit]

(* a variant whose total is the length of the page it returns *)
listClientsCountingPage(options, dbok) ==
  LET o     == WithDefaults(options)
      skip  == SkipOf(o.page.n, o.limit.n)
      dir   == IF o.sortOrder = Str(<<"desc">>) THEN -1 ELSE 1
  IN IF ~dbok \/ skip < 0 THEN {NoEffect(Throw("storage"))}
     ELSE { NoEffect(Listing(Limit(Skip(sorted, skip), o.limit.n),
                             Len(Limit(Skip(sorted, skip), o.limit.n)),
                             o.page, o.limit)) :
              sorted \in Sorted(clients, o.sortBy.s[1], dir) }

(* listClients(options): the answers it may give (the sort leaves the order *)
(* of equal keys open).  The server refuses a negative skip.                *)
listClients(options, dbok) ==
  LET o     == WithDefaults(options)
      skip  == SkipOf(o.page.n, o.limit.n)
      dir   == IF o.sortOrder = Str(<<"desc">>) THEN -1 ELSE 1
      total == Cardinality(clients)
  IN IF ~dbok \/ skip < 0 THEN {NoEffect(Throw("storage"))}
     ELSE { NoEffect(Listing(Limit(Skip(sorted, skip), o.limit.n), total,
                             o.page, o.limit)) :
              sorted \in Sorted(clients, o.sortBy.s[1], dir) }

----------------------------------------------------------------------------
(* parseInt(string) with no radix: leading blanks are skipped, a sign is    *)
(* read, a 0x prefix switches to base 16, and the longest prefix of digits  *)
(* is the value; NaN when there is no digit.                                *)
NaN == [nan |-> TRUE, n |-> 0]
Int32(i) == [nan |-> FALSE, n |-> i]

RECURSIVE DropBlanks(_)
DropBlanks(cs) ==
  IF cs # <<>> /\ cs[1] \in {" ", "\t", "\n"} THEN DropBlanks(Tail(cs)) ELSE cs

IsDigitIn(c, radix) == IsHexChar(c) /\ HexCharVal(c) < radix

RECURSIVE DigitsPrefix(_, _)
DigitsPrefix(cs, radix) ==
  IF cs # <<>> /\ IsDigitIn(cs[1], radix)
    THEN <<cs[1]>> \o DigitsPrefix(Tail(cs), radix)
    ELSE <<>>

RECURSIVE NumIn(_, _)
NumIn(cs, radix) ==
  IF cs = <<>> THEN 0
  ELSE radix * NumIn(SubSeq(cs, 1, Len(cs) - 1), radix) + HexCharVal(cs[Len(cs)])

parseInt(str) ==
  LET a      == DropBlanks(str)
      neg    == a # <<>> /\ a[1] = "-"
      b      == IF a # <<>> /\ a[1] \in {"+", "-"} THEN Tail(a) ELSE a
      hex    == Len(b) >= 2 /\ b[1] = "0" /\ b[2] \in {"x", "X"}
      radix  == IF hex THEN 16 ELSE 10
      c      == IF hex THEN SubSeq(b, 3, Len(b)) ELSE b
      digits == DigitsPrefix(c, radix)
  IN IF digits = <<>> THEN NaN
     ELSE Int32(IF neg THEN -NumIn(digits, radix) ELSE NumIn(digits, radix))

----------------------------------------------------------------------------
(* The HTTP routes (route.ts; the second route file differs only in the    *)
(* CORS headers it adds).  A query parameter is Undef when absent.          *)
Truthy(v) == v # Undef /\ v # Str(<<>>) /\ v # Num(0)

OrElse(v, default) == IF Truthy(v) THEN v ELSE default

Response(status, body) == [status |-> status, body |-> body]

(* GET /clients?id=... *)
GETClientResponse(ans) ==
  IF ans.outcome = "throw" THEN Response(500, "error: Failed to fetch clients")
  ELSE IF ans.outcome = "null" THEN Response(404, "error: Client not found")
  ELSE Response(200, "client")

(* GET /clients: the options the route hands to listClients *)
GETOptions(page, limit, sortBy, sortOrder) ==
  [page      |-> Num(parseInt(OrElse(page, Str(<<"1">>)).s).n),
   limit     |-> Num(parseInt(OrElse(limit, Str(<<"1", "0">>)).s).n),
   sortBy    |-> OrElse(sortBy, Str(<<"createdAt">>)),
   sortOrder |-> OrElse(sortOrder, Str(<<"desc">>))]

GETListResponse(ans) ==
  IF ans.outcome = "throw" THEN Response(500, "error: Failed to fetch clients")
  ELSE Response(200, "result")

(* DELETE /clients?id=... after the check that id is given *)
DELETEResponse(ans) ==
  IF ans.outcome = "throw" THEN Response(500, "error: Failed to delete client")
  ELSE IF ans.outcome = "false" THEN Response(404, "error: Client not found")
  ELSE Response(200, "message: Client deleted successfully")

(* POST /clients: everything createClient throws is an instance of Error *)
POSTResponse(ans) ==
  IF ans.outcome = "throw"
    THEN IF ans.err \in {"validation", "storage", "bson", "notfound", "syntax"}
           THEN Response(400, "error: " \o ans.err)
           ELSE Response(500, "error: Failed to create client")
    ELSE Response(201, "client")

----------------------------------------------------------------------------
(* The record store and its routes as a state machine. *)
(* db.ts: `let mongoClient = null; let mongoDb = null`.  A MongoClient is    *)
(* named by its index in sockets; the Db handle of client k is named k.     *)
Callers == 1..MaxCallers

IdleCaller == [pc |-> "idle", op |-> "none", db |-> 0, out |-> "none"]

ConnInit ==
  /\ mongoClient = 0
  /\ mongoDb = 0
  /\ sockets = <<>>
  /\ callers = [p \in Callers |-> IdleCaller]
  /\ conn = [attempts |-> 0, closes |-> 0]

(* The identity service.  An HTTP answer: net is FALSE when fetch itself    *)
(* rejects; json is FALSE when the body is not JSON; text is the envelope's *)
(* APIResponseText ("absent", "empty", "garbage" that JSON.parse refuses,   *)
(* or "json" standing for the value it decodes to).                         *)
Http(net, ok, status, json, text, value) ==
  [net |-> net, ok |-> ok, status |-> status, json |-> json, text |-> text,
   value |-> value]

Row(compGuid, webPswd, bid, uid) ==
  [compGuid |-> compGuid, webPswd |-> webPswd, bid |-> bid, uid |-> uid]

NoRow == Row(Undef, Undef, Undef, Undef)

(* the decoded login payload: null, or an object whose Table is absent, an  *)
(* array of rows, or an object that is no array *)
LoginValue(isNull, table, rows) == [isNull |-> isNull, table |-> table, rows |-> rows]

(* the decoded auth payload: null, or an object with a sessionToken or none *)
AuthValue(isNull, sessionToken) == [isNull |-> isNull, sessionToken |-> sessionToken]

CompGuid1 == Str(<<"C", "1">>)
Pw == Str(<<"p">>)

Rows ==
  { Row(CompGuid1, Pw, Str(<<"5">>), Str(<<"9">>)),
    Row(Undef, Pw, Str(<<"5">>), Str(<<"9">>)),
    Row(CompGuid1, Str(<<>>), Str(<<"-", "3">>), Str(<<"a", "b", "c">>)),
    Row(CompGuid1, Undef, Undef, Str(<<"1", "2", "a", "b">>)),
    Row(CompGuid1, Pw, Num(5), Str(<<" ", "0", "x", "1", "F">>)) }

NoLogin == LoginValue(TRUE, "absent", <<>>)

LoginResponses ==
  { Http(FALSE, FALSE, 0, FALSE, "absent", NoLogin),
    Http(TRUE, FALSE, 500, FALSE, "absent", NoLogin),
    Http(TRUE, FALSE, 500, TRUE, "json",
         LoginValue(FALSE, "array", <<Row(CompGuid1, Pw, Str(<<"5">>), Str(<<"9">>))>>)),
    Http(TRUE, TRUE, 200, FALSE, "absent", NoLogin),
    Http(TRUE, TRUE, 200, TRUE, "absent", NoLogin),
    Http(TRUE, TRUE, 200, TRUE, "empty", NoLogin),
    Http(TRUE, TRUE, 200, TRUE, "garbage", NoLogin),
    Http(TRUE, TRUE, 200, TRUE, "json", NoLogin),
    Http(TRUE, TRUE, 200, TRUE, "json", LoginValue(FALSE, "absent", <<>>)),
    Http(TRUE, TRUE, 200, TRUE, "json", LoginValue(FALSE, "array", <<>>)),
    Http(TRUE, TRUE, 200, TRUE, "json", LoginValue(FALSE, "object", <<>>)) }
  \cup { Http(TRUE, TRUE, 200, TRUE, "json", LoginValue(FALSE, "array", <<r>>)) :
           r \in Rows }
  \cup { Http(TRUE, TRUE, 200, TRUE, "json", LoginValue(FALSE, "array", <<r, NoRow>>)) :
           r \in Rows }

NoAuth == AuthValue(TRUE, Undef)

AuthResponses ==
  { Http(FALSE, FALSE, 0, FALSE, "absent", NoAuth),
    Http(TRUE, FALSE, 401, FALSE, "absent", NoAuth),
    Http(TRUE, FALSE, 401, TRUE, "json", AuthValue(FALSE, Str(<<"t", "o", "k">>))),
    Http(TRUE, TRUE, 200, FALSE, "absent", NoAuth),
    Http(TRUE, TRUE, 200, TRUE, "absent", NoAuth),
    Http(TRUE, TRUE, 200, TRUE, "empty", NoAuth),
    Http(TRUE, TRUE, 200, TRUE, "garbage", NoAuth),
    Http(TRUE, TRUE, 200, TRUE, "json", NoAuth),
    Http(TRUE, TRUE, 200, TRUE, "json", AuthValue(FALSE, Undef)),
    Http(TRUE, TRUE, 200, TRUE, "json", AuthValue(FALSE, Str(<<>>))),
    Http(TRUE, TRUE, 200, TRUE, "json", AuthValue(FALSE, Str(<<"t", "o", "k">>))) }

NoError == [phase |-> "", reason |-> ""]

BootInit ==
  boot = [pc |-> "start", phoneNumber |-> <<>>,
          loginResponse |-> Http(FALSE, FALSE, 0, FALSE, "absent", NoLogin),
          authResponse |-> Http(FALSE, FALSE, 0, FALSE, "absent", NoAuth),
          loginInfo |-> NoRow, result |-> NoDoc, error |-> NoError,
          nLogin |-> 0, nAuth |-> 0]

StoreInit ==
  /\ clients = {}
  /\ nextOid = 1
  /\ now = 1
  /\ last = NoCall
  /\ born = <<>>

(* an updateClient call: set is the $set document it sends, seen the        *)
(* record its filter matched when the call was made, seq the place of its   *)
(* write in the order the store applied them                                *)
NoUpdate ==
  [pc |-> "idle", id |-> <<>>, data |-> NoDoc, set |-> NoDoc, seen |-> {},
   seq |-> 0, out |-> "none"]

(* the two concurrent callers of updateClient *)
Updaters == {1, 2}

RaceInit == updating = [p \in Updaters |-> NoUpdate]

Init == StoreInit /\ ConnInit /\ BootInit /\ RaceInit

Idle == last.op = "none"

Commit(op, via, id, data, opts, e, resp) ==
  /\ Idle
  /\ clients' = e.clients
  /\ nextOid' = e.nextOid
  /\ now' = e.now
  /\ born' = e.born
  /\ last' = [op |-> op, via |-> via, id |-> id, data |-> data, opts |-> opts,
              ans |-> e.ans, stored |-> e.stored,
              status |-> resp.status, body |-> resp.body]
  /\ UNCHANGED <<connVars, bootVars, raceVars>>

Direct == Response(0, "")

CanCreate(c, d1, d2, d3) ==
  /\ now + d1 + d2 + d3 <= MaxTime
  /\ c["_id"] = Undef => nextOid <= MaxCreates

(* the clock matters only to a call that reaches insertOne, and the store  *)
(* only to a call that passes validation                                    *)
Ticks(c, ok) == IF ok /\ ClientValidationSchema(c) = <<>> THEN 0..1 ELSE {0}
Reached(c)   == IF ClientValidationSchema(c) = <<>> THEN BOOLEAN ELSE {TRUE}

(* the bodies posted to the route *)
Bodies ==
  ValidCandidates \cup
  { [Valid1 EXCEPT !["password"] = Undef],
    [Valid1 EXCEPT !["reporterPhone"] = Str(Phone7)],
    [Valid1 EXCEPT !["uid"] = Str(<<"9">>)] }

(* a direct call of createClient *)
CreateClient ==
  /\ Idle
  /\ \E c \in Candidates :
     \E dbok \in Reached(c) :
     \E d1, d2, d3 \in Ticks(c, dbok) :
       /\ CanCreate(c, d1, d2, d3)
       /\ Commit("create", "call", <<>>, c, NoOpts,
                 createClient(c, dbok, d1, d2, d3), Direct)

(* POST /clients; request.json() throws on a body that is not JSON *)
POST ==
  /\ Idle
  /\ \/ LET e == NoEffect(Throw("syntax"))
        IN Commit("parse", "http", <<>>, NoDoc, NoOpts, e, POSTResponse(e.ans))
     \/ \E c \in Bodies :
        \E dbok \in Reached(c) :
        \E d1, d2, d3 \in Ticks(c, dbok) :
          /\ CanCreate(c, d1, d2, d3)
          /\ LET e == createClient(c, dbok, d1, d2, d3)
             IN Commit("create", "http", <<>>, c, NoOpts, e, POSTResponse(e.ans))

(* a direct call of getClient *)
GetClient ==
  /\ Idle
  /\ \E id \in IdStrings, dbok \in BOOLEAN :
    Commit("get", "call", id, NoDoc, NoOpts, getClient(id, dbok), Direct)

(* a direct call of listClients *)
ListClients ==
  /\ Idle
  /\ \E page \in Pages, limit \in Limits, sortBy \in SortBys,
     sortOrder \in SortOrders, dbok \in BOOLEAN :
    LET opts == [page |-> page, limit |-> limit, sortBy |-> sortBy,
                 sortOrder |-> sortOrder]
    IN \E e \in listClients(opts, dbok) :
         Commit("list", "call", <<>>, NoDoc, opts, e, Direct)

(* GET /clients: one client when id is given, a page of them otherwise *)
GET ==
  /\ Idle
  /\ \E id \in {Undef, Str(<<>>)} \cup {Str(i) : i \in IdStrings}, dbok \in BOOLEAN :
    \/ /\ Truthy(id)
       /\ LET e == getClient(id.s, dbok)
          IN Commit("get", "http", id.s, NoDoc, NoOpts, e, GETClientResponse(e.ans))
    \/ /\ ~Truthy(id)
       /\ \E page \in {Undef, Str(<<"2">>), Str(<<"0">>)},
             limit \in {Undef, Str(<<"0">>), Str(<<"1">>)},
             sortBy \in {Undef, Str(<<"updatedAt">>)},
             sortOrder \in {Undef, Str(<<"asc">>)} :
            LET opts == GETOptions(page, limit, sortBy, sortOrder)
            IN \E e \in listClients(opts, dbok) :
                 Commit("list", "http", <<>>, NoDoc, opts, e, GETListResponse(e.ans))

(* a direct call of updateClient (no route reaches it) *)
UpdateClient ==
  /\ Idle
  /\ \E id \in IdStrings, u \in Updates, dbok \in BOOLEAN :
    Commit("update", "call", id, u, NoOpts, updateClient(id, u, dbok), Direct)

(* a direct call of deleteClient *)
DeleteClient ==
  /\ Idle
  /\ \E id \in IdStrings, dbok \in BOOLEAN :
    Commit("delete", "call", id, NoDoc, NoOpts, deleteClient(id, dbok), Direct)

(* DELETE /clients?id=... *)
DELETE ==
  /\ Idle
  /\ \E id \in {Undef, Str(<<>>)} \cup {Str(i) : i \in IdStrings}, dbok \in BOOLEAN :
    IF ~Truthy(id)
      THEN Commit("delete", "http", <<>>, NoDoc, NoOpts,
                  NoEffect(Return("none", NoDoc)),
                  Response(400, "error: Client ID is required"))
      ELSE LET e == deleteClient(id.s, dbok)
           IN Commit("delete", "http", id.s, NoDoc, NoOpts, e, DELETEResponse(e.ans))

(* the caller takes the answer *)
Respond ==
  /\ ~Idle
  /\ last' = NoCall
  /\ UNCHANGED <<clients, nextOid, now, born, connVars, bootVars, raceVars>>

(* time passes between requests *)
Tick ==
  /\ Idle
  /\ now < MaxTime
  /\ now' = now + 1
  /\ UNCHANGED <<clients, nextOid, last, born, connVars, bootVars, raceVars>>

Next ==
  \/ CreateClient
  \/ POST
  \/ GetClient
  \/ GET
  \/ ListClients
  \/ UpdateClient
  \/ DeleteClient
  \/ DELETE
  \/ Respond
  \/ Tick

Spec == Init /\ [][Next]_vars

----------------------------------------------------------------------------
(* db.ts: callers of getCollection (which awaits connectToMongoDB) and of   *)
(* closeMongoDB, interleaved at their awaits.                               *)
SetCaller(p, pc, op, db, out) ==
  callers' = [callers EXCEPT ![p] = [pc |-> pc, op |-> op, db |-> db, out |-> out]]

(* getCollection: `db.collection(...)` on what connectToMongoDB returned *)
collection(db) == IF db = 0 THEN "TypeError" ELSE "collection"

(* connectToMongoDB up to its await: the cache is empty, a client is       *)
(* constructed and connect() is called; or the cached mongoDb is returned   *)
ConnectBegin(p) ==
  /\ callers[p].pc = "idle"
  /\ IF mongoClient = 0
       THEN /\ Len(sockets) < MaxClients
            /\ sockets' = Append(sockets, [connect |-> "pending", closed |-> FALSE])
            /\ mongoClient' = Len(sockets) + 1
            /\ conn' = [conn EXCEPT !.attempts = @ + 1]
            /\ SetCaller(p, "connecting", "connect", Len(sockets) + 1, "none")
            /\ UNCHANGED mongoDb
       ELSE /\ SetCaller(p, "done", "connect", mongoDb, collection(mongoDb))
            /\ UNCHANGED <<mongoClient, mongoDb, sockets, conn>>
  /\ UNCHANGED <<storeVars, bootVars, raceVars>>

(* the awaited connect() settles and connectToMongoDB runs to its end:     *)
(* `mongoDb = mongoClient.db(...)` reads the cache as it is by then         *)
ConnectEnd(p) ==
  /\ callers[p].pc = "connecting"
  /\ \E ok \in BOOLEAN :
       LET k == callers[p].db
       IN /\ sockets' = [sockets EXCEPT ![k].connect = IF ok THEN "ok" ELSE "failed"]
          /\ IF ~ok
               THEN /\ SetCaller(p, "done", "connect", 0, "ConnectError")
                    /\ UNCHANGED mongoDb
             ELSE IF mongoClient = 0
               THEN /\ SetCaller(p, "done", "connect", 0, "TypeError")
                    /\ UNCHANGED mongoDb
             ELSE /\ mongoDb' = mongoClient
                  /\ SetCaller(p, "done", "connect", mongoClient, "collection")
  /\ UNCHANGED <<mongoClient, conn, storeVars, bootVars, raceVars>>

(* closeMongoDB up to its await *)
CloseBegin(p) ==
  /\ callers[p].pc = "idle"
  /\ IF mongoClient # 0
       THEN /\ sockets' = [sockets EXCEPT ![mongoClient].closed = TRUE]
            /\ conn' = [conn EXCEPT !.closes = @ + 1]
            /\ SetCaller(p, "closing", "close", mongoClient, "none")
       ELSE /\ SetCaller(p, "done", "close", 0, "none")
            /\ UNCHANGED <<sockets, conn>>
  /\ UNCHANGED <<mongoClient, mongoDb, storeVars, bootVars, raceVars>>

(* closeMongoDB after its await *)
CloseEnd(p) ==
  /\ callers[p].pc = "closing"
  /\ mongoClient' = 0
  /\ mongoDb' = 0
  /\ SetCaller(p, "done", "close", 0, "none")
  /\ UNCHANGED <<sockets, conn, storeVars, bootVars, raceVars>>

(* the caller goes on to its next request *)
CallerReturns(p) ==
  /\ callers[p].pc = "done"
  /\ callers' = [callers EXCEPT ![p] = IdleCaller]
  /\ UNCHANGED <<mongoClient, mongoDb, sockets, conn, storeVars, bootVars, raceVars>>

ConnNext ==
  \E p \in Callers :
    \/ ConnectBegin(p)
    \/ ConnectEnd(p)
    \/ CloseBegin(p)
    \/ CloseEnd(p)
    \/ CallerReturns(p)

ConnSpec == Init /\ [][ConnNext]_vars

----------------------------------------------------------------------------
(* fetchClientDataFromExternalAPI: one invocation. *)

(* String(v), as parseInt applies it to its argument *)
RECURSIVE DecimalOf(_)
DecimalOf(n) ==
  IF n < 10 THEN <<HexChars[n + 1]>>
  ELSE Append(DecimalOf(n \div 10), HexChars[(n % 10) + 1])

StringOf(v) ==
  CASE v.t = "str" -> v.s
    [] v.t = "num" -> IF v.n < 0 THEN <<"-">> \o DecimalOf(-v.n) ELSE DecimalOf(v.n)
    [] OTHER -> <<"u", "n", "d", "e", "f", "i", "n", "e", "d">>

(* parseInt(x) || 0 *)
IntOrZero(v) ==
  LET i == parseInt(StringOf(v)) IN IF i.nan THEN Num(0) ELSE Num(i.n)

AppGuid == Str(<<"77C8F2FD-B1DE-4CEA-BE74-FD943B3BD54D">>)

(* a variant that takes userName from the password column *)
ClientDataSwapped(loginInfo) ==
  [NoDoc EXCEPT
     !["bid"] = IntOrZero(loginInfo.bid),
     !["uid"] = IntOrZero(loginInfo.uid),
     !["mtcGroupID"] = Num(21),
     !["compId"] = OrElse(loginInfo.compGuid, Str(<<>>)),
     !["userName"] = OrElse(loginInfo.webPswd, Str(<<>>)),
     !["password"] = OrElse(loginInfo.webPswd, Str(<<>>)),
     !["appGuid"] = AppGuid]

(* the object the function returns *)
ClientData(loginInfo) ==
  [NoDoc EXCEPT
     !["bid"] = IntOrZero(loginInfo.bid),
     !["uid"] = IntOrZero(loginInfo.uid),
     !["mtcGroupID"] = Num(21),
     !["compId"] = OrElse(loginInfo.compGuid, Str(<<>>)),
     !["userName"] = OrElse(loginInfo.compGuid, Str(<<>>)),
     !["password"] = OrElse(loginInfo.webPswd, Str(<<>>)),
     !["appGuid"] = AppGuid]

(* a variant that does not look at loginResponse.ok *)
LoginCheckNoStatus(r) ==
  IF ~r.net THEN "network"
  ELSE IF ~r.json THEN "syntax"
  ELSE IF r.text \in {"absent", "empty"} THEN "nodata"
  ELSE IF r.text = "garbage" THEN "syntax"
  ELSE IF r.value.isNull \/ r.value.table = "absent" THEN "nodata"
  ELSE IF r.value.table = "array" /\ Len(r.value.rows) = 0 THEN "nodata"
  ELSE IF r.value.table = "object" THEN "type"
  ELSE ""

(* what the checks on the login answer throw, "" when they pass *)
LoginCheck(r) ==
  IF ~r.net THEN "network"
  ELSE IF ~r.ok THEN "status"
  ELSE IF ~r.json THEN "syntax"
  ELSE IF r.text \in {"absent", "empty"} THEN "nodata"
  ELSE IF r.text = "garbage" THEN "syntax"
  ELSE IF r.value.isNull \/ r.value.table = "absent" THEN "nodata"
  ELSE IF r.value.table = "array" /\ Len(r.value.rows) = 0 THEN "nodata"
  ELSE IF r.value.table = "object" THEN "type"   \* Table[0] is undefined
  ELSE ""

(* a variant that does not look at authResponse.ok *)
AuthCheckNoStatus(r) ==
  IF ~r.net THEN "network"
  ELSE IF ~r.json THEN "syntax"
  ELSE IF r.text \in {"absent", "empty"} THEN "notoken"
  ELSE IF r.text = "garbage" THEN "syntax"
  ELSE IF r.value.isNull THEN "type"
  ELSE IF ~Truthy(r.value.sessionToken) THEN "notoken"
  ELSE ""

(* what the checks on the auth answer throw, "" when they pass *)
AuthCheck(r) ==
  IF ~r.net THEN "network"
  ELSE IF ~r.ok THEN "status"
  ELSE IF ~r.json THEN "syntax"
  ELSE IF r.text \in {"absent", "empty"} THEN "notoken"
  ELSE IF r.text = "garbage" THEN "syntax"
  ELSE IF r.value.isNull THEN "type"             \* null.sessionToken
  ELSE IF ~Truthy(r.value.sessionToken) THEN "notoken"
  ELSE ""

PhoneNumbers ==
  { <<"0", "5", "4", "8", "3", "0", "7", "7", "6", "9">>,
    <<"1", "2", "3", "4", "5", "6", "7", "8", "9", "0">>,
    Phone9 }

(* the function is called and sends the Login request *)
BootLogin ==
  /\ boot.pc = "start"
  /\ \E phoneNumber \in PhoneNumbers :
       boot' = [boot EXCEPT !.pc = "login", !.phoneNumber = phoneNumber,
                            !.nLogin = @ + 1]
  /\ UNCHANGED <<storeVars, connVars, raceVars>>

(* a variant that sends the Login request again when the answer is refused *)
BootLoginAnsweredRetrying ==
  /\ boot.pc = "login"
  /\ \E r \in LoginResponses :
       LET heard == [boot EXCEPT !.loginResponse = r]
           err   == LoginCheck(r)
       IN boot' = IF err # ""
                    THEN IF boot.nLogin < 2
                           THEN [heard EXCEPT !.nLogin = @ + 1]
                           ELSE [heard EXCEPT !.pc = "failed",
                                              !.error = [phase |-> "login", reason |-> err]]
                    ELSE [heard EXCEPT !.pc = "auth", !.loginInfo = r.value.rows[1],
                                       !.nAuth = @ + 1]
  /\ UNCHANGED <<storeVars, connVars, raceVars>>

(* the Login answer arrives: on success the Auth request is sent *)
BootLoginAnswered ==
  /\ boot.pc = "login"
  /\ \E r \in LoginResponses :
       LET heard == [boot EXCEPT !.loginResponse = r]
           err   == LoginCheck(r)
       IN boot' = IF err # ""
                    THEN [heard EXCEPT !.pc = "failed",
                                       !.error = [phase |-> "login", reason |-> err]]
                    ELSE [heard EXCEPT !.pc = "auth", !.loginInfo = r.value.rows[1],
                                       !.nAuth = @ + 1]
  /\ UNCHANGED <<storeVars, connVars, raceVars>>

(* the Auth answer arrives: the record is returned when it carries a token *)
BootAuthAnswered ==
  /\ boot.pc = "auth"
  /\ \E r \in AuthResponses :
       LET heard == [boot EXCEPT !.authResponse = r]
           err   == AuthCheck(r)
       IN boot' = IF err # ""
                    THEN [heard EXCEPT !.pc = "failed",
                                       !.error = [phase |-> "auth", reason |-> err]]
                    ELSE [heard EXCEPT !.pc = "done",
                                       !.result = ClientData(boot.loginInfo)]
  /\ UNCHANGED <<storeVars, connVars, raceVars>>

BootNext ==
  \/ BootLogin
  \/ BootLoginAnswered
  \/ BootAuthAnswered

BootSpec == Init /\ [][BootNext]_vars

(* The handshake next to a record store that is being written to. *)
BootStoreNext ==
  \/ BootLogin
  \/ BootLoginAnswered
  \/ BootAuthAnswered
  \/ POST
  \/ Respond

BootStoreSpec == Init /\ [][BootStoreNext]_vars

(* The store without updateClient, which no route reaches. *)
ListNext ==
  \/ CreateClient
  \/ POST
  \/ GetClient
  \/ GET
  \/ ListClients
  \/ DeleteClient
  \/ DELETE
  \/ Respond
  \/ Tick

ListSpec == Init /\ [][ListNext]_vars

(* updateClient called with payloads of schema fields: a new name, a phone *)
(* the schema refuses, and a field given as undefined                       *)
FieldUpdates ==
  { [NoDoc EXCEPT !["reporterName"] = Str(<<"Z">>)],
    [NoDoc EXCEPT !["reporterPhone"] = Str(Phone7)],
    [NoDoc EXCEPT !["bid"] = Void] }

UpdateClientFields ==
  /\ Idle
  /\ \E id \in IdStrings, u \in FieldUpdates, dbok \in BOOLEAN :
    Commit("update", "call", id, u, NoOpts, updateClient(id, u, dbok), Direct)

(* The operations that write: POST /clients, updateClient, deleteClient. *)
UpdateNext ==
  \/ POST
  \/ UpdateClientFields
  \/ DeleteClient
  \/ Respond
  \/ Tick

UpdateSpec == Init /\ [][UpdateNext]_vars

(* the concurrent calls: two payloads that overlap in one field, and one   *)
(* that validation refuses                                                  *)
RaceUpdates ==
  { [NoDoc EXCEPT !["reporterName"] = Str(<<"Z">>)],
    [NoDoc EXCEPT !["reporterName"] = Str(<<"Y">>), !["bid"] = Num(7)],
    [NoDoc EXCEPT !["reporterPhone"] = Str(Phone7)] }

RaceIds == WellFormedIds \cup {<<"a", "b", "c">>}

(* updateClient, call by call: what runs before the request leaves the     *)
(* process (validation, new ObjectId, new Date()), the store applying the   *)
(* findOneAndUpdate as one write, and the answer coming back.               *)
UpdateBegin(p) ==
  /\ updating[p].pc = "idle"
  /\ Idle
  /\ \E id \in RaceIds, u \in RaceUpdates :
       LET issues == ClientValidationSchemaPartial(u)
           parsed == ObjectIdFromString(id)
           call   == [NoUpdate EXCEPT !.id = id, !.data = u,
                                      !.seen = IF parsed.ok
                                                 THEN FindById(clients, parsed.oid)
                                                 ELSE {}]
       IN updating' =
            [updating EXCEPT ![p] =
               IF issues # <<>> THEN [call EXCEPT !.pc = "done", !.out = "validation"]
               ELSE IF ~parsed.ok THEN [call EXCEPT !.pc = "done", !.out = "bson"]
               ELSE [call EXCEPT !.pc = "sent",
                                 !.set = [u EXCEPT !["updatedAt"] = Date(now)]]]
  /\ UNCHANGED <<storeVars, connVars, bootVars>>

(* a variant that writes back the record as the call first saw it *)
UpdateApplyStale(p) ==
  /\ updating[p].pc = "sent"
  /\ Idle
  /\ LET found == FindById(clients, ObjectIdFromString(updating[p].id).oid)
         old   == CHOOSE d \in found : TRUE
         new   == Spread(CHOOSE d \in updating[p].seen : TRUE, updating[p].set)
         nth   == 1 + Cardinality({q \in Updaters : updating[q].seq > 0})
     IN IF found = {} \/ updating[p].seen = {}
          THEN /\ updating' = [updating EXCEPT ![p].pc = "done", ![p].out = "notfound"]
               /\ UNCHANGED <<clients, born>>
          ELSE /\ clients' = (clients \ {old}) \cup {new}
               /\ born' = [born EXCEPT ![old["_id"]].intact = FALSE]
               /\ updating' = [updating EXCEPT ![p].pc = "done", ![p].out = "ok",
                                                ![p].seq = nth]
  /\ UNCHANGED <<nextOid, now, last, connVars, bootVars>>

(* the store applies one call's findOneAndUpdate and the call returns *)
UpdateApply(p) ==
  /\ updating[p].pc = "sent"
  /\ Idle
  /\ LET found == FindById(clients, ObjectIdFromString(updating[p].id).oid)
         old   == CHOOSE d \in found : TRUE
         set   == updating[p].set
         new   == Spread(old, Bson(set))
         nth   == 1 + Cardinality({q \in Updaters : updating[q].seq > 0})
     IN IF found = {}
          THEN /\ updating' = [updating EXCEPT ![p].pc = "done", ![p].out = "notfound"]
               /\ UNCHANGED <<clients, born>>
        ELSE IF set["_id"] # Undef /\ set["_id"] # old["_id"]
          THEN /\ updating' = [updating EXCEPT ![p].pc = "done", ![p].out = "storage"]
               /\ UNCHANGED <<clients, born>>
        ELSE /\ clients' = (clients \ {old}) \cup {new}
             /\ born' = [born EXCEPT ![old["_id"]].intact = FALSE]
             /\ updating' = [updating EXCEPT ![p].pc = "done", ![p].out = "ok",
                                              ![p].seq = nth]
  /\ UNCHANGED <<nextOid, now, last, connVars, bootVars>>

(* POST /clients with a body that passes validation, the store answering *)
POSTValid ==
  /\ Idle
  /\ \E d1, d2, d3 \in 0..1 :
       /\ CanCreate(Valid1, d1, d2, d3)
       /\ LET e == createClient(Valid1, TRUE, d1, d2, d3)
          IN Commit("create", "http", <<>>, Valid1, NoOpts, e, POSTResponse(e.ans))

RaceNext ==
  \/ POSTValid
  \/ Respond
  \/ Tick
  \/ \E p \in Updaters : UpdateBegin(p) \/ UpdateApply(p)

RaceSpec == Init /\ [][RaceNext]_vars

----------------------------------------------------------------------------
(* Properties. *)

StoreAnswered == last.ans.err # "storage"

(* C1: for every candidate that passes validation, create(candidate) and   *)
(* then getById(the id create returned), with no update or delete of that   *)
(* id in between, returns a record with the candidate's fields plus the     *)
(* store-assigned id, createdAt and updatedAt.                              *)
C1_CreateThenGet ==
  \A id \in DOMAIN born :
    (/\ last.op = "get"
     /\ StoreAnswered
     /\ born[id].intact
     /\ last.id = IdToString(id))
    => /\ last.ans.outcome = "ok"
       /\ \A f \in FieldNames : last.ans.doc[f] = born[id].cand[f]
       /\ last.ans.doc["_id"] = id
       /\ last.ans.doc["createdAt"].t = "date"
       /\ last.ans.doc["updatedAt"].t = "date"

(* The candidates C2 is about, in the claim's words. *)
RequiredFields == FieldNames \ {"whatsappGroupName"}
NumberFields   == {"bid", "uid", "mtcGroupID"}

MissingRequired(c) == \E f \in RequiredFields : c[f] = Undef

WronglyTyped(c) ==
  \E f \in FieldNames :
    /\ c[f] \notin {Undef, Void}
    /\ c[f].t # (IF f \in NumberFields THEN "num" ELSE "str")

IsraeliPhone(cs) ==
  \E n \in {8, 9} :
    /\ Len(cs) = 4 + n
    /\ cs[1] = "+" /\ cs[2] = "9" /\ cs[3] = "7" /\ cs[4] = "2"
    /\ \A i \in 5..(4 + n) : cs[i] \in Digits

BadPhone(c) == c["reporterPhone"].t = "str" /\ ~IsraeliPhone(c["reporterPhone"].s)

Rejected(c) == MissingRequired(c) \/ WronglyTyped(c) \/ BadPhone(c)

(* C2: a candidate missing a required field, with a wrongly typed field or *)
(* with a reporterPhone that is not +972 and 8 or 9 digits makes create     *)
(* fail with a validation error and leaves the stored records unchanged.    *)
C2_InvalidCreateRejected ==
  [][ (last'.op = "create" /\ last.op = "none" /\ Rejected(last'.data))
      => /\ last'.ans.outcome = "throw"
         /\ last'.ans.err = "validation"
         /\ last'.ans.issues # <<>>
         /\ clients' = clients
         /\ Cardinality(clients') = Cardinality(clients) ]_vars

C2_Witness ==
  /\ last.op = "create"
  /\ last.data["reporterPhone"] = Str(Phone7)
  /\ last.ans.err = "validation"
  /\ clients # {}

(* C3: getById with a malformed identifier answers "not found", as for a   *)
(* well-formed identifier that matches nothing; it does not fail; the route *)
(* answers 404 {error: "Client not found"}.                                 *)
C3_MalformedIdNotFound ==
  (/\ last.op = "get"
   /\ StoreAnswered
   /\ ~(Len(last.id) = 24 /\ \A i \in 1..Len(last.id) : IsHexChar(last.id[i])))
  => /\ last.ans.outcome = "null"
     /\ last.via = "http" => (last.status = 404 /\ last.body = "error: Client not found")

(* C4: while nothing closes the connection, at most one client is          *)
(* constructed, at most one connect attempt is made, and every caller that  *)
(* connectToMongoDB answers is given that one established handle.           *)
C4_SingleHandle ==
  conn.closes = 0
  => /\ Len(sockets) <= 1
     /\ conn.attempts <= 1
     /\ \A p \in Callers :
          (/\ callers[p].pc = "done"
           /\ callers[p].op = "connect"
           /\ callers[p].out # "ConnectError")
          => /\ callers[p].db = 1
             /\ sockets[1].connect = "ok"

(* C5: for every stored record, createdAt is the value assigned when the   *)
(* record was created, whatever updates were made, and updatedAt is not     *)
(* before createdAt.                                                        *)
C5_CreatedAtImmutable ==
  \A d \in clients :
    /\ d["createdAt"] = born[d["_id"]].createdAt
    /\ d["updatedAt"].n >= d["createdAt"].n

(* The Bootstrap answers C6 and C7 are about, in the claims' words. *)
Heard(r)       == r.net
HttpFailure(r) == Heard(r) /\ ~r.ok
Decoded(r)     == Heard(r) /\ r.ok /\ r.json /\ r.text = "json" /\ ~r.value.isNull

NoTable(r) ==
  /\ Decoded(r)
  /\ \/ r.value.table = "absent"
     \/ r.value.table = "array" /\ r.value.rows = <<>>

NoToken(r) ==
  /\ Heard(r) /\ r.ok /\ r.json
  /\ \/ r.text \in {"absent", "empty"}
     \/ Decoded(r) /\ r.value.sessionToken \in {Undef, Str(<<>>)}

LoginHeard == boot.pc \in {"auth", "done", "failed"}
AuthHeard  == boot.pc \in {"done", "failed"} /\ boot.nAuth > 0

(* C6: when the Login answer is an HTTP failure, or its decoded payload has *)
(* no result table or an empty one, the invocation fails in the Login step  *)
(* (with the status, or the "no data" reason) and sends no Auth request; an *)
(* Auth request is sent only after a successful Login answer whose table    *)
(* has a row.                                                               *)
C6_LoginFailureSendsNoAuth ==
  /\ (LoginHeard /\ HttpFailure(boot.loginResponse))
       => /\ boot.pc = "failed"
          /\ boot.error = [phase |-> "login", reason |-> "status"]
          /\ boot.nAuth = 0
  /\ (LoginHeard /\ NoTable(boot.loginResponse))
       => /\ boot.pc = "failed"
          /\ boot.error = [phase |-> "login", reason |-> "nodata"]
          /\ boot.nAuth = 0
  /\ boot.nAuth > 0
       => /\ boot.nAuth = 1
          /\ boot.loginResponse.ok
          /\ Decoded(boot.loginResponse)
          /\ boot.loginResponse.value.table = "array"
          /\ Len(boot.loginResponse.value.rows) > 0
          /\ boot.loginInfo = boot.loginResponse.value.rows[1]

C6_Witness ==
  /\ boot.pc = "failed"
  /\ boot.nLogin = 1
  /\ boot.loginResponse.ok
  /\ boot.loginResponse.value.table = "array"
  /\ boot.loginResponse.value.rows = <<>>
  /\ boot.error.phase = "login"
  /\ boot.nAuth = 0

(* C7: when Login succeeded and the Auth answer is an HTTP failure, or its  *)
(* nested payload carries no session token, the invocation fails in the     *)
(* Auth step and returns no record; a record is returned only when the Auth *)
(* answer carried a session token.                                          *)
C7_AuthFailureEmitsNothing ==
  /\ (AuthHeard /\ HttpFailure(boot.authResponse))
       => /\ boot.pc = "failed"
          /\ boot.error = [phase |-> "auth", reason |-> "status"]
          /\ boot.result = NoDoc
  /\ (AuthHeard /\ NoToken(boot.authResponse))
       => /\ boot.pc = "failed"
          /\ boot.error = [phase |-> "auth", reason |-> "notoken"]
          /\ boot.result = NoDoc
  /\ boot.pc = "failed" => boot.result = NoDoc
  /\ boot.result # NoDoc
       => /\ boot.pc = "done"
          /\ boot.authResponse.ok
          /\ Decoded(boot.authResponse)
          /\ boot.authResponse.value.sessionToken.t = "str"
          /\ boot.authResponse.value.sessionToken.s # <<>>

C7_Witness ==
  /\ boot.pc = "failed"
  /\ boot.nAuth = 1
  /\ boot.authResponse.ok
  /\ Decoded(boot.authResponse)
  /\ boot.authResponse.value.sessionToken = Undef
  /\ boot.error.phase = "auth"
  /\ boot.result = NoDoc

(* The integer a row's bid or uid stands for, in the claim's words: the     *)
(* number itself, the value of a decimal numeral, 0 when missing or when    *)
(* there is no numeral to read.  Left open (Undef) for any other text.      *)
RECURSIVE DecimalValue(_)
DecimalValue(cs) ==
  IF cs = <<>> THEN 0
  ELSE 10 * DecimalValue(SubSeq(cs, 1, Len(cs) - 1))
       + (CHOOSE k \in 0..9 : HexChars[k + 1] = cs[Len(cs)])

AllDigits(cs) == cs # <<>> /\ \A i \in 1..Len(cs) : cs[i] \in Digits

IntegerParse(v) ==
  IF v = Undef THEN Num(0)
  ELSE IF v.t = "num" THEN v
  ELSE IF AllDigits(v.s) THEN Num(DecimalValue(v.s))
  ELSE IF v.s # <<>> /\ v.s[1] = "-" /\ AllDigits(Tail(v.s)) THEN Num(-DecimalValue(Tail(v.s)))
  ELSE IF v.s = <<>> \/ v.s[1] \in {"a", "b", "c"} THEN Num(0)
  ELSE Undef

RecordKeys == {"bid", "uid", "mtcGroupID", "compId", "userName", "password", "appGuid"}

Emitted == boot.pc = "done"

(* what C8 says of the record apart from the three credential fields *)
RecordFrame ==
  /\ \A k \in DocKeys : boot.result[k] # Undef <=> k \in RecordKeys
  /\ boot.result["mtcGroupID"] = Num(21)
  /\ boot.result["appGuid"] = Str(<<"77C8F2FD-B1DE-4CEA-BE74-FD943B3BD54D">>)
  /\ \A k \in {"bid", "uid"} :
       /\ boot.result[k].t = "num"
       /\ IntegerParse(boot.loginInfo[k]) # Undef
            => boot.result[k] = IntegerParse(boot.loginInfo[k])
  /\ \A k \in RecordKeys : boot.result[k] # boot.authResponse.value.sessionToken

OrEmpty(v) == IF v \in {Undef, Str(<<>>), Num(0)} THEN Str(<<>>) ELSE v

NonEmpty(v) == v # Undef /\ v.t = "str" /\ v.s # <<>>

(* C9: every record the function returns has bid >= 0, uid >= 0,           *)
(* mtcGroupID > 0 and non-empty compId, userName, password and appGuid.     *)
C9_RecordUsable ==
  Emitted
  => /\ boot.result["bid"].n >= 0
     /\ boot.result["uid"].n >= 0
     /\ boot.result["mtcGroupID"].n > 0
     /\ \A k \in {"compId", "userName", "password", "appGuid"} : NonEmpty(boot.result[k])

(* C10: list(page, limit, sortBy, sortOrder) with page >= 1 returns exactly *)
(* the records at positions (page-1)*limit+1 to page*limit of the stored    *)
(* records ordered by sortBy in sortOrder, fewer or none when the           *)
(* collection ends earlier.                                                 *)
C10_ListPage ==
  LET o    == WithDefaults(last.opts)
      n    == Cardinality(clients)
      from == (o.page.n - 1) * o.limit.n + 1
      to   == Min(o.page.n * o.limit.n, n)
  IN (/\ last.op = "list"
      /\ StoreAnswered
      /\ o.page.n >= 1)
     => /\ last.ans.outcome = "ok"
        /\ \E all \in Sorted(clients, o.sortBy.s[1],
                             IF o.sortOrder = Str(<<"desc">>) THEN -1 ELSE 1) :
             last.ans.docs = SubSeq(all, from, to)

(* C11: whenever list answers, its total is the number of records stored,  *)
(* whatever the length of the page it returns, and the page and limit it    *)
(* was given (1 and 10 when left out) come back unchanged.                  *)
C11_TotalAndEcho ==
  (last.op = "list" /\ last.ans.outcome = "ok")
  => /\ last.ans.total = Cardinality(clients)
     /\ last.ans.page = (IF last.opts.page = Undef THEN Num(1) ELSE last.opts.page)
     /\ last.ans.limit = (IF last.opts.limit = Undef THEN Num(10) ELSE last.opts.limit)

C11_Witness ==
  /\ last.op = "list"
  /\ last.ans.outcome = "ok"
  /\ last.opts.limit = Num(1)
  /\ last.opts.page = Num(2)
  /\ Len(last.ans.docs) = 1
  /\ last.ans.total = 2

(* C12: delete(id) answers true exactly when a record with that id was     *)
(* stored and this call removed it; on an id that matches no record it      *)
(* answers false, it does not fail, and the store is left as it was.        *)
C12_DeleteTrueIffRemoved ==
  [][ (/\ last.op = "none"
       /\ last'.op = "delete"
       /\ last'.ans.outcome # "none"
       /\ last'.ans.err # "storage")
      => LET existed == Named(clients, last'.id)
         IN /\ last'.ans.outcome \in {"true", "false"}
            /\ last'.ans.outcome = "true" <=> existed # {}
            /\ clients' = clients \ existed ]_vars

OnlyReporterName(u) == \A k \in DocKeys : u[k] # Undef <=> k = "reporterName"

(* C13: update(id, {reporterName}) changes nothing but reporterName and    *)
(* updatedAt of the record id names: its other fields, and every other      *)
(* record, stay identical; when it succeeds the record carries the new name *)
(* and is what the call returns.                                            *)
C13_UpdateFrame ==
  [][ (/\ last.op = "none"
       /\ last'.op = "update"
       /\ OnlyReporterName(last'.data))
      => /\ \A d \in clients :
              \E e \in clients' :
                /\ e["_id"] = d["_id"]
                /\ \A k \in DocKeys \ {"reporterName", "updatedAt"} : e[k] = d[k]
                /\ IdToString(d["_id"]) # last'.id => e = d
         /\ Cardinality(clients') = Cardinality(clients)
         /\ last'.ans.outcome = "ok"
              => \E e \in clients' :
                   /\ IdToString(e["_id"]) = last'.id
                   /\ e["reporterName"] = last'.data["reporterName"]
                   /\ last'.ans.doc = e ]_vars

C13_Witness ==
  /\ last.op = "update"
  /\ last.ans.outcome = "ok"
  /\ OnlyReporterName(last.data)
  /\ last.ans.doc["reporterName"] = Str(<<"Z">>)
  /\ last.ans.doc["updatedAt"].n > last.ans.doc["createdAt"].n
  /\ last.ans.doc \in clients
  /\ Cardinality(clients) = 2

(* C14: update(id, changes) with a payload that passes validation and an   *)
(* id that names no stored record fails with the not-found error and leaves *)
(* the store as it was.                                                     *)
C14_UpdateNotFound ==
  [][ (/\ last.op = "none"
       /\ last'.op = "update"
       /\ last'.ans.err # "storage"
       /\ ClientValidationSchemaPartial(last'.data) = <<>>
       /\ Named(clients, last'.id) = {})
      => /\ last'.ans.outcome = "throw"
         /\ last'.ans.err = "notfound"
         /\ clients' = clients ]_vars

GenericBodies ==
  {"error: Failed to fetch clients", "error: Failed to delete client",
   "error: Failed to create client"}

(* C15: a request (GET, DELETE or POST /clients) during which the store    *)
(* fails is answered 500 with a generic message; POST answers 400 with the  *)
(* error's message only when validation failed.                             *)
C15_StorageFailureIs500 ==
  /\ (last.via = "http" /\ last.ans.err = "storage")
       => /\ last.status = 500
          /\ last.body \in GenericBodies
  /\ (last.via = "http" /\ last.op = "create" /\ last.status = 400)
       => last.ans.err = "validation"

(* C16: when create succeeds, the id, createdAt and updatedAt of the value *)
(* it returns are those of the record it persisted.                         *)
C16_CreateReturnsStored ==
  (last.op = "create" /\ last.ans.outcome = "ok")
  => /\ last.stored \in clients
     /\ \A k \in {"_id", "createdAt", "updatedAt"} : last.ans.doc[k] = last.stored[k]

BootTerminal == boot.pc \in {"done", "failed"}

BootShape ==
  /\ boot.nLogin <= 1
  /\ boot.nAuth <= 1
  /\ boot.nAuth <= boot.nLogin
  /\ boot.pc = "start"  => boot.nLogin = 0
  /\ boot.pc = "login"  => boot.nLogin = 1 /\ boot.nAuth = 0
  /\ boot.pc = "auth"   => boot.nAuth = 1
  /\ boot.pc = "done"   => /\ boot.nAuth = 1
                           /\ boot.result # NoDoc
                           /\ boot.error = NoError
  /\ boot.pc = "failed" => /\ boot.result = NoDoc
                           /\ boot.error.phase \in {"login", "auth"}
                           /\ boot.error.phase = "login" <=> boot.nAuth = 0

(* C17: an invocation sends at most one Login and at most one Auth         *)
(* request; when the requests it sent are answered it is Done with a record *)
(* or Failed in the Login or the Auth step, never both, and stays there; no *)
(* step of it writes to the record store.                                   *)
C17_SingleAttemptTerminal ==
  /\ []BootShape
  /\ [][ /\ boot' # boot => (clients' = clients /\ born' = born /\ nextOid' = nextOid)
         /\ BootTerminal => boot' = boot
         /\ boot.pc = "login" /\ boot' # boot =>
              (boot'.pc = "failed" \/ (boot'.pc = "auth" /\ boot'.nAuth = 1))
         /\ boot.pc = "auth" /\ boot' # boot => boot'.pc \in {"done", "failed"} ]_vars

C17_Witness ==
  /\ boot.pc = "done"
  /\ boot.nLogin = 1
  /\ boot.nAuth = 1
  /\ boot.result["mtcGroupID"] = Num(21)
  /\ clients # {}

(* The calls C18 is about: payloads of schema fields that pass validation,  *)
(* made on the id of a record that was stored when the call was made.       *)
ValidChanges(u) ==
  /\ ClientValidationSchemaPartial(u) = <<>>
  /\ \A k \in DocKeys \ FieldNames : u[k] = Undef

OnRecord(d) ==
  {p \in Updaters : updating[p].pc # "idle" /\ d \in updating[p].seen}

(* the call whose write the store applied last among ps *)
LastOf(ps) == CHOOSE p \in ps : \A q \in ps : updating[q].seq <= updating[p].seq

(* C18: when update calls with valid payloads on the same existing id have *)
(* all completed, none of them failed, and every field, and updatedAt, of   *)
(* the record holds the value of the last applied call that set it.         *)
C18_LastWriteWins ==
  \A d \in UNION {updating[p].seen : p \in Updaters} :
    LET ps == OnRecord(d)
    IN (/\ Cardinality(ps) >= 2
        /\ \A p \in ps : updating[p].pc = "done" /\ ValidChanges(updating[p].data))
       => /\ \A p \in ps : updating[p].out = "ok" /\ updating[p].seq > 0
          /\ \A p, q \in ps : p # q => updating[p].seq # updating[q].seq
          /\ \E e \in clients :
               /\ e["_id"] = d["_id"]
               /\ \A k \in FieldNames \cup {"updatedAt"} :
                    LET ws == {p \in ps : updating[p].set[k] # Undef}
                    IN IF ws = {} THEN e[k] = d[k]
                       ELSE e[k] = updating[LastOf(ws)].set[k]

C18_Witness ==
  /\ \A p \in {1, 2} : updating[p].pc = "done" /\ updating[p].out = "ok"
  /\ updating[1].id = updating[2].id
  /\ updating[1].seen = updating[2].seen
  /\ updating[1].data = [NoDoc EXCEPT !["reporterName"] = Str(<<"Z">>)]
  /\ updating[2].data = [NoDoc EXCEPT !["reporterName"] = Str(<<"Y">>), !["bid"] = Num(7)]
  /\ updating[1].set["updatedAt"].n < updating[2].set["updatedAt"].n
  /\ updating[1].seq > updating[2].seq
  /\ \E e \in clients :
       /\ e["reporterName"] = Str(<<"Z">>)
       /\ e["bid"] = Num(7)
       /\ e["updatedAt"] = updating[1].set["updatedAt"]

(* C19: whenever connectToMongoDB returns (it does not throw), what it     *)
(* returns is the handle of a client whose connect() has succeeded, also    *)
(* for a caller that arrives during another caller's connect and for one    *)
(* that arrives after a connect that failed.                                *)
C19_ReturnsEstablishedHandle ==
  \A p \in Callers :
    (/\ callers[p].pc = "done"
     /\ callers[p].op = "connect"
     /\ callers[p].out # "ConnectError")
    => /\ callers[p].db # 0
       /\ callers[p].db \in 1..Len(sockets)
       /\ sockets[callers[p].db].connect = "ok"
       /\ callers[p].out = "collection"

(* C20: after any sequence of create, update and delete calls every stored *)
(* record has all required fields, well typed, and an Israeli-format        *)
(* reporterPhone; an update whose payload has an invalid present field      *)
(* fails with a validation error and changes nothing.                       *)
C20_StoredRecordsValid ==
  /\ [](\A d \in clients : ~Rejected(d))
  /\ [][ (/\ last.op = "none"
          /\ last'.op = "update"
          /\ last'.ans.err # "storage"
          /\ (WronglyTyped(last'.data) \/ BadPhone(last'.data)))
         => /\ last'.ans.err = "validation"
            /\ clients' = clients ]_vars

====
